---- MODULE Spec2Model ----
(***************************************************************************)
(* PromptCraftAgent ("ai app/import openai.py"): a four-stage pipeline     *)
(* parse_input -> update_memory -> plan_prompts -> generate_output around  *)
(* a remote completion API, with a rolling memory held in self.memory.     *)
(*                                                                         *)
(* The file is run as a script: line 207 binds datetime before the agent   *)
(* is constructed on line 210, so _log_to_session finds it.  The state is  *)
(* that of one constructed agent; __init__ has already succeeded.          *)
(*                                                                         *)
(* Python values are tagged records: [type |-> "str" | "dict" | "list" |   *)
(* "int" | "NoneType", ...].  A text whose characters matter (the reply of *)
(* the generation call, the constant error output) is a tuple of           *)
(* one-character strings in the field chars.                               *)
(***************************************************************************)
EXTENDS Integers, Sequences, FiniteSets, TLC

VARIABLES memory, result, trace

vars == <<memory, result, trace>>

(***************************************************************************)
(* Bounds of the exploration.                                              *)
(***************************************************************************)
MaxCalls == 2
MaxUpdates == 6
WarmCalls == 5

(***************************************************************************)
(* __init__                                                                *)
(***************************************************************************)
max_memory_items == 5

InitMemory ==
    [user_preferences |-> [last_niches |-> <<>>,
                           frequent_tones |-> <<>>,
                           recent_topics |-> <<>>],
     session_history |-> <<>>]

\* x[:n]
Take(s, n) == SubSeq(s, 1, IF Len(s) < n THEN Len(s) ELSE n)

\* The object self.memory itself: update_memory logs and returns the dict,
\* not a copy of it.
MemoryRef == [type |-> "dict", ref |-> "self.memory"]

IsMemoryRef(v) == v.type = "dict" /\ "ref" \in DOMAIN v

\* What a stored value denotes now: a reference to self.memory denotes the
\* memory as it currently is.
Deref(v, mem) == IF IsMemoryRef(v) THEN mem ELSE v

NoneValue == [type |-> "NoneType"]

PyStr(text) == [type |-> "str", text |-> text]

PyText(chars) == [type |-> "str", chars |-> chars]

PyDict(items) == [type |-> "dict", items |-> items]

\* _log_to_session: appends one entry (the timestamp field, which nothing
\* reads, is left out).
log_to_session(mem, event_type, data) ==
    [mem EXCEPT !.session_history =
        Append(@, [type |-> event_type, data |-> data])]

(***************************************************************************)
(* The completion API, as far as the agent can observe it.                 *)
(***************************************************************************)
ApiErrors == {"Connection error"}

Raise(msg) == [raises |-> TRUE, msg |-> msg]

Reply(content) == [raises |-> FALSE, content |-> content]

\* Reply bodies of the JSON-mode call.
JsonTexts ==
    {"{\"niche\": \"food\", \"tone\": \"funny\", \"constraints\": [\"vegan\"], \"audience\": \"Instagram\"}",
     "{\"niche\": \"tech\", \"tone\": \"serious\"}",
     "{\"niche\": \"travel\"}",
     "{\"tone\": \"funny\"}",
     "{}",
     "[]",
     "42"}

BadTexts == {"Sorry, I cannot help with that."}

JSONDecodeError == "Expecting value: line 1 column 1 (char 0)"

\* json.loads on the reply bodies above
json_loads(text) ==
    CASE text = "{\"niche\": \"food\", \"tone\": \"funny\", \"constraints\": [\"vegan\"], \"audience\": \"Instagram\"}"
            -> PyDict([niche |-> "food", tone |-> "funny",
                       constraints |-> <<"vegan">>, audience |-> "Instagram"])
      [] text = "{\"niche\": \"tech\", \"tone\": \"serious\"}"
            -> PyDict([niche |-> "tech", tone |-> "serious"])
      [] text = "{\"niche\": \"travel\"}"
            -> PyDict([niche |-> "travel"])
      [] text = "{\"tone\": \"funny\"}"
            -> PyDict([tone |-> "funny"])
      [] text = "{}"
            -> PyDict(<<>>)
      [] text = "[]"
            -> [type |-> "list", elems |-> <<>>]
      [] text = "42"
            -> [type |-> "int", value |-> 42]

ParseOutcomes ==
    {Raise(m) : m \in ApiErrors} \cup {Reply(t) : t \in JsonTexts \cup BadTexts}

(***************************************************************************)
(* Layer 1: parse_input                                                    *)
(***************************************************************************)
ParseDefault(msg) ==
    PyDict([niche |-> "general", tone |-> "neutral",
            constraints |-> <<>>, error |-> msg])

\* Variant: the except branch returns the default without logging.
parse_failure_unlogged(mem, msg) ==
    [mem |-> mem, ret |-> ParseDefault(msg)]

parse_failure(mem, msg) ==
    [mem |-> log_to_session(mem, "error", PyStr(msg)),
     ret |-> ParseDefault(msg)]

parse_input(mem, api) ==
    IF api.raises THEN parse_failure(mem, api.msg)
    ELSE IF api.content \notin JsonTexts THEN parse_failure(mem, JSONDecodeError)
    ELSE LET parsed == json_loads(api.content)
         IN [mem |-> log_to_session(mem, "input_parsed", parsed),
             ret |-> parsed]

(***************************************************************************)
(* Layer 2: update_memory                                                  *)
(***************************************************************************)
\* key in parsed_input: membership of a dict's keys or a list's elements;
\* an int is not iterable (TypeError).  A str argument behaves like one of
\* these two: like the list when the key is not a substring of it, like the
\* int (TypeError at the subscript, before any assignment) when it is.
InRaises(v) == v.type \notin {"dict", "list"}

In(key, v) ==
    IF v.type = "dict" THEN key \in DOMAIN v.items
    ELSE \E i \in 1..Len(v.elems) : v.elems[i] = key

\* Variant: the slices [:self.max_memory_items] are missing.
update_memory_unbounded(mem, parsed_input) ==
    IF InRaises(parsed_input)
    THEN [mem |-> log_to_session(mem, "error",
                     PyStr("argument of type 'int' is not iterable")),
          ret |-> MemoryRef]
    ELSE LET m1 == IF In("niche", parsed_input)
                   THEN [mem EXCEPT !.user_preferences.last_niches =
                            <<parsed_input.items.niche>> \o @]
                   ELSE mem
             m2 == IF In("tone", parsed_input)
                   THEN [m1 EXCEPT !.user_preferences.frequent_tones =
                            <<parsed_input.items.tone>> \o @]
                   ELSE m1
         IN [mem |-> log_to_session(m2, "memory_updated", MemoryRef),
             ret |-> MemoryRef]

\* Variant: the new value is appended at the end (list + [value]).
update_memory_oldest_first(mem, parsed_input) ==
    IF InRaises(parsed_input)
    THEN [mem |-> log_to_session(mem, "error",
                     PyStr("argument of type 'int' is not iterable")),
          ret |-> MemoryRef]
    ELSE LET m1 == IF In("niche", parsed_input)
                   THEN [mem EXCEPT !.user_preferences.last_niches =
                            Take(@ \o <<parsed_input.items.niche>>, max_memory_items)]
                   ELSE mem
             m2 == IF In("tone", parsed_input)
                   THEN [m1 EXCEPT !.user_preferences.frequent_tones =
                            Take(@ \o <<parsed_input.items.tone>>, max_memory_items)]
                   ELSE m1
         IN [mem |-> log_to_session(m2, "memory_updated", MemoryRef),
             ret |-> MemoryRef]

\* Variant: a missing tone is pushed as parsed_input.get('tone', 'neutral').
update_memory_default_tone(mem, parsed_input) ==
    IF InRaises(parsed_input)
    THEN [mem |-> log_to_session(mem, "error",
                     PyStr("argument of type 'int' is not iterable")),
          ret |-> MemoryRef]
    ELSE LET m1 == IF In("niche", parsed_input)
                   THEN [mem EXCEPT !.user_preferences.last_niches =
                            Take(<<parsed_input.items.niche>> \o @, max_memory_items)]
                   ELSE mem
             m2 == [m1 EXCEPT !.user_preferences.frequent_tones =
                       Take(<<IF In("tone", parsed_input)
                              THEN parsed_input.items.tone
                              ELSE "neutral">> \o @, max_memory_items)]
         IN [mem |-> log_to_session(m2, "memory_updated", MemoryRef),
             ret |-> MemoryRef]

update_memory(mem, parsed_input) ==
    IF InRaises(parsed_input)
    THEN [mem |-> log_to_session(mem, "error",
                     PyStr("argument of type 'int' is not iterable")),
          ret |-> MemoryRef]
    ELSE LET m1 == IF In("niche", parsed_input)
                   THEN [mem EXCEPT !.user_preferences.last_niches =
                            Take(<<parsed_input.items.niche>> \o @, max_memory_items)]
                   ELSE mem
             m2 == IF In("tone", parsed_input)
                   THEN [m1 EXCEPT !.user_preferences.frequent_tones =
                            Take(<<parsed_input.items.tone>> \o @, max_memory_items)]
                   ELSE m1
         IN [mem |-> log_to_session(m2, "memory_updated", MemoryRef),
             ret |-> MemoryRef]

(***************************************************************************)
(* Layer 3: plan_prompts                                                   *)
(***************************************************************************)
FallbackPlan == [type |-> "str", text |-> "Generate diverse writing prompts"]

\* parsed_input.get(key, default)
Get(d, key, default) == IF key \in DOMAIN d.items THEN d.items[key] ELSE default

\* plan_template.format(...): the template with its five slots filled
plan_template(niche, tone, recent_topics, constraints, audience) ==
    [type |-> "str",
     template |-> "Generate writing prompts by: ...",
     niche |-> niche,
     tone |-> tone,
     recent_topics |-> recent_topics,
     constraints |-> constraints,
     audience |-> audience]

\* Variant: the except branch returns the fallback without logging.
plan_prompts_unlogged_failure(mem, parsed_input) ==
    IF parsed_input.type # "dict"
    THEN [mem |-> mem, ret |-> FallbackPlan]
    ELSE LET plan == plan_template(
                        Get(parsed_input, "niche", "general"),
                        Get(parsed_input, "tone", "neutral"),
                        Take(mem.user_preferences.recent_topics, 3),
                        IF "constraints" \in DOMAIN parsed_input.items
                        THEN [type |-> "list", elems |-> parsed_input.items.constraints]
                        ELSE PyStr("none"),
                        Get(parsed_input, "audience", "general"))
         IN [mem |-> log_to_session(mem, "plan_created", plan),
             ret |-> plan]

plan_prompts(mem, parsed_input) ==
    IF parsed_input.type # "dict"
    THEN [mem |-> log_to_session(mem, "error",
                     PyStr(IF parsed_input.type = "list"
                           THEN "'list' object has no attribute 'get'"
                           ELSE "'int' object has no attribute 'get'")),
          ret |-> FallbackPlan]
    ELSE LET plan == plan_template(
                        Get(parsed_input, "niche", "general"),
                        Get(parsed_input, "tone", "neutral"),
                        Take(mem.user_preferences.recent_topics, 3),
                        IF "constraints" \in DOMAIN parsed_input.items
                        THEN [type |-> "list", elems |-> parsed_input.items.constraints]
                        ELSE PyStr("none"),
                        Get(parsed_input, "audience", "general"))
         IN [mem |-> log_to_session(mem, "plan_created", plan),
             ret |-> plan]

(***************************************************************************)
(* Layer 4: generate_output                                                *)
(***************************************************************************)
ErrorOutput ==
    PyText(<<"*", "*", "E", "r", "r", "o", "r", " ", "g", "e", "n", "e", "r",
             "a", "t", "i", "n", "g", " ", "p", "r", "o", "m", "p", "t", "s",
             "*", "*", "\n", "P", "l", "e", "a", "s", "e", " ", "t", "r", "y",
             " ", "a", "g", "a", "i", "n", " ", "l", "a", "t", "e", "r", ".">>)

\* Reply bodies of the free-text call, as characters.
OutputTexts ==
    {<<"*", "*", "a", "*", "*", "b">>,
     <<"*", "*", "b", "*", "*", "a", "*", "*">>,
     <<"b", "*", "*", "a">>,
     <<"a", "*", "*">>,
     <<"*", "a", "*">>,
     <<"*", "*", "*", "a", "*", "*">>}

GenerateOutcomes ==
    {Raise(m) : m \in ApiErrors} \cup {Reply(t) : t \in OutputTexts}

\* '**' in output
HasMarker(s) == \E i \in 1..(Len(s) - 1) : s[i] = "*" /\ s[i + 1] = "*"

\* str.split('**'): scans from the left, cutting at each marker found
RECURSIVE SplitFrom(_, _, _)
SplitFrom(s, i, piece) ==
    IF i > Len(s) THEN <<piece>>
    ELSE IF i < Len(s) /\ s[i] = "*" /\ s[i + 1] = "*"
         THEN <<piece>> \o SplitFrom(s, i + 2, <<>>)
         ELSE SplitFrom(s, i + 1, Append(piece, s[i]))

split(s) == SplitFrom(s, 1, <<>>)

\* Variant: the piece before the first marker is taken (index [0]).
update_topic_memory_first_piece(mem, output) ==
    IF HasMarker(output)
    THEN LET main_topic == split(split(output)[1])[1]
         IN [mem EXCEPT !.user_preferences.recent_topics =
                Take(<<main_topic>> \o @, max_memory_items)]
    ELSE mem

\* _update_topic_memory (Python index [1] is the second piece, [0] the first)
update_topic_memory(mem, output) ==
    IF HasMarker(output)
    THEN LET main_topic == split(split(output)[2])[1]
         IN [mem EXCEPT !.user_preferences.recent_topics =
                Take(<<main_topic>> \o @, max_memory_items)]
    ELSE mem

\* Variant: the except branch records the error output as a topic too.
generate_output_topic_on_failure(mem, plan, api) ==
    IF api.raises
    THEN [mem |-> log_to_session(update_topic_memory(mem, ErrorOutput.chars),
                                 "error", PyStr(api.msg)),
          ret |-> ErrorOutput]
    ELSE LET output == PyText(api.content)
             m1 == update_topic_memory(mem, api.content)
         IN [mem |-> log_to_session(m1, "output_generated", output),
             ret |-> output]

generate_output(mem, plan, api) ==
    IF api.raises
    THEN [mem |-> log_to_session(mem, "error", PyStr(api.msg)),
          ret |-> ErrorOutput]
    ELSE LET output == PyText(api.content)
             m1 == update_topic_memory(mem, api.content)
         IN [mem |-> log_to_session(m1, "output_generated", output),
             ret |-> output]

(***************************************************************************)
(* run_agent                                                               *)
(***************************************************************************)
\* json.dumps(self.memory, indent=2) raises ValueError("Circular reference
\* detected") when the memory contains itself, which it does as soon as a
\* memory_updated entry is in session_history.
CircularReference(mem) ==
    \E i \in 1..Len(mem.session_history) :
        IsMemoryRef(mem.session_history[i].data)

\* How a call ends: it returns ret or lets exc escape; api lists the replies
\* of the completion API that the call consumed, in order.
Returned(mem, ret, api) ==
    [mem |-> mem, raised |-> FALSE, exc |-> "", ret |-> ret, api |-> api]

Raised(mem, exc, api) ==
    [mem |-> mem, raised |-> TRUE, exc |-> exc, ret |-> NoneValue, api |-> api]

run_agent(mem, apiParse, apiGenerate) ==
    LET r1 == parse_input(mem, apiParse)
        r2 == update_memory(r1.mem, r1.ret)
    IN IF CircularReference(r2.mem)
       THEN Raised(r2.mem, "ValueError", <<apiParse>>)
       ELSE LET r3 == plan_prompts(r2.mem, r1.ret)
                r4 == generate_output(r3.mem, r3.ret, apiGenerate)
            IN Returned(r4.mem, r4.ret, <<apiParse, apiGenerate>>)

(***************************************************************************)
(* The callers: arguments of direct calls.                                 *)
(***************************************************************************)
UserInputs == {"Give me a funny prompt about vegan baking for Instagram",
               "Travel writing idea about hidden gems in Europe"}

ParsedInputs ==
    {json_loads(t) : t \in JsonTexts} \cup {ParseDefault("Connection error")}

Plans == {FallbackPlan,
          plan_template("food", "funny", <<>>, PyStr("none"), "general")}

Call(op, arg) == [op |-> op, arg |-> arg]

Outcome(op, r) ==
    [op |-> op, raised |-> r.raised, exc |-> r.exc, ret |-> r.ret, api |-> r.api]

Init ==
    /\ memory = InitMemory
    /\ result = Outcome("__init__", Returned(InitMemory, NoneValue, <<>>))
    /\ trace = <<>>

ParseInput ==
    \E user_input \in UserInputs, api \in ParseOutcomes :
        /\ Len(trace) < MaxCalls
        /\ LET r == parse_input(memory, api)
           IN /\ memory' = r.mem
              /\ result' = Outcome("parse_input", Returned(r.mem, r.ret, <<api>>))
        /\ trace' = Append(trace, Call("parse_input", PyStr(user_input)))

UpdateMemory ==
    \E parsed_input \in ParsedInputs :
        /\ Len(trace) < MaxCalls
        /\ LET r == update_memory(memory, parsed_input)
           IN /\ memory' = r.mem
              /\ result' = Outcome("update_memory", Returned(r.mem, r.ret, <<>>))
        /\ trace' = Append(trace, Call("update_memory", parsed_input))

PlanPrompts ==
    \E parsed_input \in ParsedInputs :
        /\ Len(trace) < MaxCalls
        /\ LET r == plan_prompts(memory, parsed_input)
           IN /\ memory' = r.mem
              /\ result' = Outcome("plan_prompts", Returned(r.mem, r.ret, <<>>))
        /\ trace' = Append(trace, Call("plan_prompts", parsed_input))

GenerateOutput ==
    \E plan \in Plans, api \in GenerateOutcomes :
        /\ Len(trace) < MaxCalls
        /\ LET r == generate_output(memory, plan, api)
           IN /\ memory' = r.mem
              /\ result' = Outcome("generate_output", Returned(r.mem, r.ret, <<api>>))
        /\ trace' = Append(trace, Call("generate_output", plan))

RunAgent ==
    \E user_input \in UserInputs, apiParse \in ParseOutcomes,
       apiGenerate \in GenerateOutcomes :
        /\ Len(trace) < MaxCalls
        /\ LET r == run_agent(memory, apiParse, apiGenerate)
           IN /\ memory' = r.mem
              /\ result' = Outcome("run_agent", r)
        /\ trace' = Append(trace, Call("run_agent", PyStr(user_input)))

Next ==
    \/ ParseInput
    \/ UpdateMemory
    \/ PlanPrompts
    \/ GenerateOutput
    \/ RunAgent

Spec == Init /\ [][Next]_vars

(***************************************************************************)
(* A caller that only updates: up to MaxUpdates calls of update_memory on  *)
(* a fresh agent.                                                          *)
(***************************************************************************)
UpdateInputs == {json_loads(t) : t \in JsonTexts}

UpdateOnly ==
    \E parsed_input \in UpdateInputs :
        /\ Len(trace) < MaxUpdates
        /\ LET r == update_memory(memory, parsed_input)
           IN /\ memory' = r.mem
              /\ result' = Outcome("update_memory", Returned(r.mem, r.ret, <<>>))
        /\ trace' = Append(trace, Call("update_memory", parsed_input))

NextUpdate == UpdateOnly

SpecUpdate == Init /\ [][NextUpdate]_vars

(***************************************************************************)
(* An agent that has been in use: the memory after k calls of              *)
(* update_memory and k successful calls of generate_output, computed with  *)
(* the operators above; the calls of Next then start from there.  trace    *)
(* holds the calls made since.                                             *)
(***************************************************************************)
WarmParsed(k) ==
    IF k % 2 = 1 THEN PyDict([niche |-> "food", tone |-> "funny"])
    ELSE PyDict([niche |-> "tech", tone |-> "serious"])

WarmReply(k) ==
    IF k % 2 = 1 THEN Reply(<<"*", "*", "a", "*", "*", "b">>)
    ELSE Reply(<<"*", "*", "b", "*", "*", "a", "*", "*">>)

RECURSIVE WarmUpdates(_)
WarmUpdates(k) ==
    IF k = 0 THEN InitMemory
    ELSE update_memory(WarmUpdates(k - 1), WarmParsed(k)).mem

RECURSIVE WarmGenerates(_, _)
WarmGenerates(n, k) ==
    IF k = 0 THEN WarmUpdates(n)
    ELSE generate_output(WarmGenerates(n, k - 1), FallbackPlan, WarmReply(k)).mem

WarmStarts == {0, WarmCalls - 1, WarmCalls}

InitWarm ==
    /\ \E k \in WarmStarts : memory = WarmGenerates(k, k)
    /\ result = Outcome("__init__", Returned(InitMemory, NoneValue, <<>>))
    /\ trace = <<>>

SpecWarm == InitWarm /\ [][Next]_vars

(***************************************************************************)
(* Vocabulary of the properties.                                           *)
(***************************************************************************)
history == memory.session_history

prefs == memory.user_preferences

Last(s) == s[Len(s)]

\* This step is a call of op.
Calls(op) == Len(trace') = Len(trace) + 1 /\ Last(trace').op = op

\* The entries this step appended to the session history.
Appended == SubSeq(history', Len(history) + 1, Len(history'))

Types(entries) == [i \in 1..Len(entries) |-> entries[i].type]

IsPrefix(s, t) == Len(s) <= Len(t) /\ SubSeq(t, 1, Len(s)) = s

HasKey(parsed, key) == parsed.type = "dict" /\ key \in DOMAIN parsed.items

\* The values under key that the update_memory calls of tr carried, newest
\* first.
RECURSIVE Carried(_, _)
Carried(tr, key) ==
    IF Len(tr) = 0 THEN <<>>
    ELSE LET c == tr[Len(tr)]
             rest == Carried(SubSeq(tr, 1, Len(tr) - 1), key)
         IN IF c.op = "update_memory" /\ HasKey(c.arg, key)
            THEN <<c.arg.items[key]>> \o rest
            ELSE rest

\* A '**' marker starts at position i of s.
MarkerAt(s, i) == i >= 1 /\ i < Len(s) /\ s[i] = "*" /\ s[i + 1] = "*"

Markers(s, from) == {i \in from..Len(s) : MarkerAt(s, i)}

Min(S) == CHOOSE x \in S : \A y \in S : x <= y

\* The parse reply is a JSON object.
ParseSucceeded(api) ==
    /\ ~api.raises
    /\ api.content \in JsonTexts
    /\ json_loads(api.content).type = "dict"

\* The parse step failed: the call raised or the body is not JSON.
ParseFailed(api) == api.raises \/ api.content \in BadTexts

ParseMessage(api) == IF api.raises THEN api.msg ELSE JSONDecodeError

\* This step made a generation call that the API answered; GenReply is the
\* answer's text.
GenSucceeded ==
    \/ Calls("generate_output") /\ ~result'.api[1].raises
    \/ Calls("run_agent") /\ Len(result'.api) = 2 /\ ~result'.api[2].raises

GenReply == Last(result'.api).content

(***************************************************************************)
(* C1: every call of run_agent on a constructed agent, whatever the API    *)
(* does and whatever calls came before, returns a string and lets no       *)
(* exception escape.                                                       *)
(***************************************************************************)
C1_RunReturnsString ==
    result.op = "run_agent" => (~result.raised /\ result.ret.type = "str")

(***************************************************************************)
(* C2: in every reachable state each of last_niches, frequent_tones and    *)
(* recent_topics has length at most 5.                                     *)
(***************************************************************************)
C2_BoundedLists ==
    /\ Len(prefs.last_niches) <= 5
    /\ Len(prefs.frequent_tones) <= 5
    /\ Len(prefs.recent_topics) <= 5

\* Both an update_memory carrying a niche and a tone, and a generation with
\* a marked topic, have pushed onto lists that were already full.
C2_Witness ==
    /\ Len(trace) = 2
    /\ Len(history) = 2 * WarmCalls + 2
    /\ trace[1].op = "update_memory"
    /\ HasKey(trace[1].arg, "niche") /\ HasKey(trace[1].arg, "tone")
    /\ trace[2].op = "generate_output"
    /\ ~result.api[1].raises /\ HasMarker(result.api[1].content)
    /\ Len(prefs.last_niches) = 5
    /\ Len(prefs.frequent_tones) = 5
    /\ Len(prefs.recent_topics) = 5

(***************************************************************************)
(* C3: starting from an empty memory, after any sequence of update_memory  *)
(* calls last_niches is the last min(k,5) niches pushed, newest first (the *)
(* oldest is the one evicted), and frequent_tones likewise for the tones.  *)
(***************************************************************************)
C3_NewestFirst ==
    /\ prefs.last_niches = Take(Carried(trace, "niche"), 5)
    /\ prefs.frequent_tones = Take(Carried(trace, "tone"), 5)

\* Six pushes food, tech, food, tech, food, tech: the first food is gone.
C3_Witness ==
    /\ Len(trace) = 6
    /\ Carried(trace, "niche") = <<"tech", "food", "tech", "food", "tech", "food">>
    /\ prefs.last_niches = <<"tech", "food", "tech", "food", "tech">>
    /\ prefs.frequent_tones = <<"serious", "funny", "serious", "funny", "serious">>

(***************************************************************************)
(* C4: a run_agent call in which the API calls succeed appends exactly the *)
(* four events input_parsed, memory_updated, plan_created,                 *)
(* output_generated, in that order.                                        *)
(***************************************************************************)
C4_FullRunFourEvents ==
    [][(/\ Calls("run_agent")
        /\ ParseSucceeded(result'.api[1])
        /\ Len(result'.api) = 2 => ~result'.api[2].raises)
       => Types(Appended) = <<"input_parsed", "memory_updated",
                              "plan_created", "output_generated">>]_vars

(***************************************************************************)
(* C5: when the API call of parse_input raises, or its reply is not JSON,  *)
(* parse_input returns the default {niche: general, tone: neutral,         *)
(* constraints: [], error: message} and has appended exactly one entry, of *)
(* type error and carrying that message (so no input_parsed entry).        *)
(***************************************************************************)
C5_ParseFailure ==
    [][(Calls("parse_input") /\ ParseFailed(result'.api[1]))
       => LET msg == ParseMessage(result'.api[1])
          IN /\ ~result'.raised
             /\ result'.ret = PyDict([niche |-> "general", tone |-> "neutral",
                                      constraints |-> <<>>, error |-> msg])
             /\ history' = Append(history, [type |-> "error", data |-> PyStr(msg)])]_vars

\* A parse_input call, made after an earlier call, whose API call raised.
C5_Witness ==
    /\ Len(trace) = 2
    /\ result.op = "parse_input"
    /\ result.api[1].raises
    /\ result.ret.items.error = result.api[1].msg
    /\ Last(history).type = "error"

(***************************************************************************)
(* C6: when the generation API call fails, generate_output returns exactly *)
(* "**Error generating prompts**\nPlease try again later.", appends an     *)
(* error event, and leaves the three bounded lists as they were.           *)
(***************************************************************************)
C6_GenerateFailure ==
    [][(Calls("generate_output") /\ result'.api[1].raises)
       => /\ ~result'.raised
          /\ result'.ret = ErrorOutput
          /\ history' = Append(history, [type |-> "error",
                                         data |-> PyStr(result'.api[1].msg)])
          /\ prefs' = prefs]_vars

\* A failed generation on an agent that already remembers a topic.
C6_Witness ==
    /\ result.op = "generate_output"
    /\ result.api[1].raises
    /\ result.ret = ErrorOutput
    /\ Len(prefs.recent_topics) > 0

(***************************************************************************)
(* C7: update_memory with no tone key leaves frequent_tones unchanged,     *)
(* with no niche key leaves last_niches unchanged, never raises, and never *)
(* changes recent_topics.                                                  *)
(***************************************************************************)
C7_UpdateFrame ==
    [][Calls("update_memory")
       => LET parsed == Last(trace').arg
          IN /\ ~result'.raised
             /\ ~HasKey(parsed, "tone") => prefs'.frequent_tones = prefs.frequent_tones
             /\ ~HasKey(parsed, "niche") => prefs'.last_niches = prefs.last_niches
             /\ prefs'.recent_topics = prefs.recent_topics]_vars

\* An update carrying a niche and no tone, on full lists.
C7_Witness ==
    /\ Len(trace) > 0
    /\ Last(trace).op = "update_memory"
    /\ HasKey(Last(trace).arg, "niche")
    /\ ~HasKey(Last(trace).arg, "tone")
    /\ prefs.last_niches[1] = Last(trace).arg.items.niche
    /\ Len(prefs.frequent_tones) = 5
    /\ Len(prefs.recent_topics) = 5

(***************************************************************************)
(* C8: the data of a memory_updated entry is a snapshot: whatever happens  *)
(* later, the preferences that entry shows stay the ones of the memory as  *)
(* it was when the entry was written.                                      *)
(***************************************************************************)
C8_SnapshotStable ==
    [][\A i \in 1..Len(history) :
          history[i].type = "memory_updated"
          => Deref(history'[i].data, memory').user_preferences
             = Deref(history[i].data, memory).user_preferences]_vars

(***************************************************************************)
(* C9 as stated: a successful generation pushes to the front of            *)
(* recent_topics the first span enclosed between a pair of '**' markers;   *)
(* with no marker, or an opening marker that is never closed, it leaves    *)
(* recent_topics unchanged; it logs no error for the extraction.           *)
(***************************************************************************)
C9_EnclosedSpanOrNothing ==
    [][GenSucceeded
       => LET s == GenReply
              topics == prefs.recent_topics
          IN /\ Last(history').type = "output_generated"
             /\ IF Markers(s, 1) # {} /\ Markers(s, Min(Markers(s, 1)) + 2) # {}
                THEN LET open == Min(Markers(s, 1))
                         close == Min(Markers(s, open + 2))
                     IN prefs'.recent_topics =
                            Take(<<SubSeq(s, open + 2, close - 1)>> \o topics, 5)
                ELSE prefs'.recent_topics = topics]_vars

(***************************************************************************)
(* C9 amended: a successful generation pushes to the front of              *)
(* recent_topics the text that follows the first '**' marker of the reply, *)
(* up to the next '**' marker or, when there is none, up to the end of the *)
(* reply; a reply with no marker leaves recent_topics unchanged; the only  *)
(* entry it appends is output_generated.                                   *)
(***************************************************************************)
C9_TextAfterFirstMarker ==
    [][GenSucceeded
       => LET s == GenReply
              topics == prefs.recent_topics
          IN /\ Last(history').type = "output_generated"
             /\ Calls("generate_output")
                => Appended = <<[type |-> "output_generated", data |-> PyText(s)]>>
             /\ IF Markers(s, 1) # {}
                THEN LET open == Min(Markers(s, 1))
                         close == IF Markers(s, open + 2) # {}
                                  THEN Min(Markers(s, open + 2))
                                  ELSE Len(s) + 1
                     IN prefs'.recent_topics =
                            Take(<<SubSeq(s, open + 2, close - 1)>> \o topics, 5)
                ELSE prefs'.recent_topics = topics]_vars

\* A reply "b**a", whose marker is never closed: the tail "a" was pushed.
C9_Witness ==
    /\ result.op = "generate_output"
    /\ ~result.api[1].raises
    /\ result.api[1].content = <<"b", "*", "*", "a">>
    /\ prefs.recent_topics[1] = <<"a">>
    /\ Last(history).type = "output_generated"

(***************************************************************************)
(* C10: the session history is append-only, and each call of parse_input,  *)
(* update_memory, plan_prompts or generate_output, failing or not, makes   *)
(* it exactly one entry longer.                                            *)
(***************************************************************************)
C10_AppendOnly ==
    [][/\ IsPrefix(history, history')
       /\ (Calls("parse_input") \/ Calls("update_memory")
           \/ Calls("plan_prompts") \/ Calls("generate_output"))
          => Len(history') = Len(history) + 1]_vars

\* A failed plan_prompts followed by a failed generate_output: two entries.
C10_Witness ==
    /\ Len(trace) = 2
    /\ trace[1].op = "plan_prompts"
    /\ trace[2].op = "generate_output"
    /\ Len(history) = 2
    /\ history[1].type = "error"
    /\ history[2].type = "error"
====
